---- MODULE Spec2Model ----
(***************************************************************************)
(* State-machine model of the live trading script src/模拟.ipynb:          *)
(* the main thread (set-up, the polling loop, the decision policy f and    *)
(* run_forever) and the trader thread that invokes the handlers of         *)
(* MyXtQuantTraderCallback.                                                *)
(***************************************************************************)
EXTENDS Integers, Sequences, FiniteSets, TLC

VARIABLES
    pc,               \* position of the main thread
    idx,              \* index in code_list of the stock f evaluates next (0 outside f)
    now,              \* time of day <<h, m, s>> the loop head read last
    data,             \* result of get_market_data_ex of the current iteration:
                      \* the close column of each stock's frame
    index,            \* the index (bar timestamps) of each stock's frame
    bought_list,      \* A.bought_list
    hsa,              \* A.hsa
    orders,           \* requests passed to xt_trader.order_stock_async, in order
    log,              \* lines printed to stdout, in order
    registered,       \* a callback object is registered with xt_trader
    started,          \* the trader thread is running
    connect_result,   \* value returned by xt_trader.connect()
    subscribe_result, \* value returned by xt_trader.subscribe(acc)
    connected,        \* the broker session is established
    ncallbacks,       \* number of broker events handled so far
    event,            \* the broker event the trader thread handled last (history)
    loop_exited,      \* the polling loop has executed its break (history)
    entry_bought      \* A.bought_list as it was when f was entered (history)

vars == <<pc, idx, now, data, index, bought_list, hsa, orders, log, registered,
          started, connect_result, subscribe_result, connected, ncallbacks,
          event, loop_exited, entry_bought>>

----------------------------------------------------------------------------
(* Bounds of the model *)

\* broker events handled in one run
MaxCallbacks == 1

----------------------------------------------------------------------------
(* Program constants *)

code_list == <<"600000.SH", "000001.SZ">>
Stocks == {code_list[i] : i \in 1..Len(code_list)}
account_id == "2000128"
order_volume == 100
order_price == -1
\* value of connect_result / subscribe_result before the assignment
Unassigned == -2
\* get_market_data_ex not called yet: no rows for any stock
EmptyData == [s \in Stocks |-> <<>>]
\* the variable now before the loop assigns it
NotRead == <<>>
NoEvent == [kind |-> "none", order_remark |-> "", error_msg |-> ""]

\* Close series the data source may return for one stock (oldest first).
\* Values are whole numbers, so each is exactly a binary64 value.
BarSeries == { <<10>>, <<10, 11>>, <<100, 109>>, <<100, 108>>, <<0, 11>>,
               <<11, 10, 11>>, <<-10, 11>> }

\* Frames the data source may return for one stock: the close column and the
\* index, the day number of each bar. The index is ascending, or, for one
\* frame, has its two bars in reverse order.
Frames ==
    {[close |-> c, time |-> [i \in 1..Len(c) |-> i]] : c \in BarSeries}
        \cup {[close |-> <<10, 11>>, time |-> <<2, 1>>]}

\* Times of day datetime.datetime.now() may return. The date is not kept:
\* a reading may be followed by any other, on the same or on a later day.
Times == << <<9, 29, 59>>, <<9, 30, 0>>, <<14, 59, 59>>, <<15, 0, 0>>,
            <<15, 0, 1>> >>
TimeSet == {Times[i] : i \in 1..Len(Times)}

ErrorMsgs == {"rejected"}

----------------------------------------------------------------------------
(* now.strftime('%H%M%S') and the comparison of the resulting strings *)

\* two decimal digits of n, zero padded
TwoDigits(n) == <<n \div 10, n % 10>>

\* '%H%M%S': six digits
strftime(t) == TwoDigits(t[1]) \o TwoDigits(t[2]) \o TwoDigits(t[3])

\* Python's str comparison a <= b on digit strings: lexicographic
RECURSIVE StrLe(_, _)
StrLe(a, b) ==
    IF a = <<>> THEN TRUE
    ELSE IF b = <<>> THEN FALSE
    ELSE IF Head(a) < Head(b) THEN TRUE
    ELSE IF Head(a) > Head(b) THEN FALSE
    ELSE StrLe(Tail(a), Tail(b))

StrLt(a, b) == StrLe(a, b) /\ a # b

window_open == <<0, 9, 3, 0, 0, 0>>
window_close == <<1, 5, 0, 0, 0, 0>>

\* '093000' <= now_time < '150000'
InWindow_close_inclusive(t) == StrLe(window_open, strftime(t)) /\ StrLe(strftime(t), window_close)
InWindow(t) == StrLe(window_open, strftime(t)) /\ StrLt(strftime(t), window_close)

----------------------------------------------------------------------------
(* ratio = cuurent_price / pre_price - 1 if pre_price > 0 else 0            *)
(* ratio > 0.09, in binary64 arithmetic.                                   *)
(*                                                                         *)
(* For operands that are exact doubles: q = RN(cur/pre); for q in [1,2)    *)
(* q - 1 is exact, and the double 0.09 is 6485183463413514 * 2^-56, so     *)
(* q - 1 > 0.09 iff q >= T, T = 1 + 405323966463345 * 2^-52 the least      *)
(* double above 1 + 0.09.  T has an odd significand, so RN(x) >= T iff     *)
(* x > T - 2^-53 (the tie rounds to the even neighbour below), i.e.        *)
(*     cur * 2^53  >  pre * (2^53 + 2 * 405323966463345 - 1)               *)
(*                 =  pre * 9817847187667681.                              *)
(* The products exceed the range of TLC's integers and are                 *)
(* computed on base-10000 limbs, most significant first.                   *)

LimbBase == 10000
\* 2^53 = 9007199254740992
TwoPow53 == <<9007, 1992, 5474, 992>>
\* 2^53 + 810647932926689 = 9817847187667681
ThresholdNum == <<9817, 8471, 8766, 7681>>

\* <<carry, limbs>> of n * L
RECURSIVE MulCarry(_, _)
MulCarry(n, L) ==
    IF L = <<>> THEN <<0, <<>>>>
    ELSE LET rest == MulCarry(n, Tail(L))
             v == n * Head(L) + rest[1]
         IN <<v \div LimbBase, <<v % LimbBase>> \o rest[2]>>

\* n * L for 0 <= n < LimbBase, one limb longer than L
MulSmall(n, L) == LET r == MulCarry(n, L) IN <<r[1]>> \o r[2]

\* a > b for limb sequences of equal length
RECURSIVE LimbGt(_, _)
LimbGt(a, b) ==
    IF a = <<>> THEN FALSE
    ELSE IF Head(a) > Head(b) THEN TRUE
    ELSE IF Head(a) < Head(b) THEN FALSE
    ELSE LimbGt(Tail(a), Tail(b))

\* cuurent_price / pre_price - 1 > 0.09 for pre_price > 0
QuotientExceeds(pre_price, cuurent_price) ==
    /\ cuurent_price > 0
    /\ LimbGt(MulSmall(cuurent_price, TwoPow53), MulSmall(pre_price, ThresholdNum))

\* ratio > 0.09 with ratio = cuurent_price / pre_price - 1 if pre_price > 0 else 0
RatioExceeds_unguarded(pre_price, cuurent_price) ==
    QuotientExceeds(pre_price, cuurent_price)
RatioExceeds(pre_price, cuurent_price) ==
    IF pre_price > 0 THEN QuotientExceeds(pre_price, cuurent_price) ELSE FALSE

\* data[stock].iloc[-1, 0] and data[stock].iloc[-2, 0] raise IndexError
\* when the frame has fewer rows
HasTwoRows(rows) == Len(rows) >= 2
iloc_last(rows) == rows[Len(rows)]
iloc_prev(rows) == rows[Len(rows) - 1]

----------------------------------------------------------------------------
(* Helpers on the state *)

Range(q) == {q[i] : i \in 1..Len(q)}


print(line) == log' = Append(log, line)

\* xt_trader.order_stock_async(acc, stock, STOCK_BUY, 100, LATEST_PRICE, -1,
\*                             'strategy_name', stock): the request, and the
\* sequence number the call returns (-1 when there is no session to send it on)
order_stock_async_sell(stock) ==
    [ account_id    |-> account_id,
      stock_code    |-> stock,
      order_type    |-> "STOCK_SELL",
      order_volume  |-> order_volume,
      price_type    |-> "LATEST_PRICE",
      price         |-> order_price,
      strategy_name |-> "strategy_name",
      order_remark  |-> stock,
      async_seq     |-> IF connected THEN Len(orders) + 1 ELSE -1 ]
order_stock_async(stock) ==
    [ account_id    |-> account_id,
      stock_code    |-> stock,
      order_type    |-> "STOCK_BUY",
      order_volume  |-> order_volume,
      price_type    |-> "LATEST_PRICE",
      price         |-> order_price,
      strategy_name |-> "strategy_name",
      order_remark  |-> stock,
      async_seq     |-> IF connected THEN Len(orders) + 1 ELSE -1 ]

\* ratio > 0.09 and stock not in A.bought_list
ShouldBuy_no_membership_test(stock, rows, bought) ==
    RatioExceeds(iloc_prev(rows), iloc_last(rows))
ShouldBuy(stock, rows, bought) ==
    /\ RatioExceeds(iloc_prev(rows), iloc_last(rows))
    /\ stock \notin Range(bought)

\* A.bought_list.append(stock)
bought_append_skipped(bought, stock) == bought
bought_append(bought, stock) == Append(bought, stock)

----------------------------------------------------------------------------
(* Initial state: the module level statements and the first lines of main *)

Init ==
    /\ pc = "register_callback"
    /\ idx = 0
    /\ now = NotRead
    /\ data = EmptyData
    /\ index = EmptyData
    /\ bought_list = <<>>
    /\ hsa \in SUBSET Stocks
    /\ orders = <<>>
    /\ log = << <<"start">> >>
    /\ registered = FALSE
    /\ started = FALSE
    /\ connect_result = Unassigned
    /\ subscribe_result = Unassigned
    /\ connected = FALSE
    /\ ncallbacks = 0
    /\ event = NoEvent
    /\ loop_exited = FALSE
    /\ entry_bought = <<>>

----------------------------------------------------------------------------
(* Main thread *)

\* xt_trader.register_callback(callback)
register_callback_skipped ==
    /\ pc = "register_callback"
    /\ pc' = "start"
    /\ UNCHANGED <<idx, now, data, index, bought_list, hsa, orders, log, registered,
                   started, connect_result, subscribe_result, connected, ncallbacks,
                   event, loop_exited, entry_bought>>
register_callback ==
    /\ pc = "register_callback"
    /\ registered' = TRUE
    /\ pc' = "start"
    /\ UNCHANGED <<idx, now, data, index, bought_list, hsa, orders, log, started,
                   connect_result, subscribe_result, connected, ncallbacks, event,
                   loop_exited, entry_bought>>

\* xt_trader.start()
start ==
    /\ pc = "start"
    /\ started' = TRUE
    /\ pc' = "connect"
    /\ UNCHANGED <<idx, now, data, index, bought_list, hsa, orders, log, registered,
                   connect_result, subscribe_result, connected, ncallbacks, event,
                   loop_exited, entry_bought>>

\* connect_result = xt_trader.connect(); print(..., connect_result)
connect ==
    /\ pc = "connect"
    /\ \E r \in {0, -1} :
          /\ connect_result' = r
          /\ connected' = (r = 0)
          /\ print(<<"connect_result", ToString(r)>>)
    /\ pc' = "subscribe"
    /\ UNCHANGED <<idx, now, data, index, bought_list, hsa, orders, registered,
                   started, subscribe_result, ncallbacks, event, loop_exited,
                   entry_bought>>

\* subscribe_result = xt_trader.subscribe(acc); print(..., subscribe_result)
subscribe ==
    /\ pc = "subscribe"
    /\ \E r \in {0, -1} :
          /\ r = 0 => connected
          /\ subscribe_result' = r
          /\ print(<<"subscribe_result", ToString(r)>>)
    /\ pc' = "subscribe_quote"
    /\ UNCHANGED <<idx, now, data, index, bought_list, hsa, orders, registered,
                   started, connect_result, connected, ncallbacks, event,
                   loop_exited, entry_bought>>

\* for code in code_list: download_history_data(...); subscribe_quote(...)
subscribe_quote ==
    /\ pc = "subscribe_quote"
    /\ pc' = "loop"
    /\ UNCHANGED <<idx, now, data, index, bought_list, hsa, orders, log, registered,
                   started, connect_result, subscribe_result, connected, ncallbacks,
                   event, loop_exited, entry_bought>>

\* value of pc after the break: xt_trader.run_forever() never returns
after_break_exits == "exit"
after_break_polls_again == "loop"
after_break == "run_forever"

\* head of the while loop: now = datetime.datetime.now(), break outside the
\* trading window
loop_head ==
    /\ pc = "loop"
    /\ now' \in TimeSet
    /\ IF InWindow(now')
         THEN /\ pc' = "get_market_data"
              /\ UNCHANGED <<log, loop_exited>>
         ELSE /\ print(<<"now", "not trading time, loop exits">>)
              /\ pc' = after_break
              /\ loop_exited' = TRUE
    /\ UNCHANGED <<idx, data, index, bought_list, hsa, orders, registered,
                   started, connect_result, subscribe_result, connected, ncallbacks,
                   event, entry_bought>>

\* data = xtdata.get_market_data_ex(['close'], code_list, ...); f(data) is entered
get_market_data_ex ==
    /\ pc = "get_market_data"
    /\ \E frames \in [Stocks -> Frames] :
          /\ data' = [s \in Stocks |-> frames[s].close]
          /\ index' = [s \in Stocks |-> frames[s].time]
    /\ pc' = "f"
    /\ idx' = 1
    /\ entry_bought' = bought_list
    /\ UNCHANGED <<now, bought_list, hsa, orders, log, registered, started,
                   connect_result, subscribe_result, connected, ncallbacks, event,
                   loop_exited>>

\* the for loop of f moves to the next stock, or f returns
f_advance ==
    IF idx < Len(code_list)
      THEN /\ idx' = idx + 1
           /\ UNCHANGED <<pc, data, index>>
      ELSE /\ idx' = 0
           /\ pc' = "sleep"
           /\ data' = EmptyData
           /\ index' = EmptyData

\* one iteration of the for loop of f, for stock = code_list[idx]
f_stock ==
    /\ pc = "f"
    /\ LET stock == code_list[idx]
           rows == data[stock]
       IN IF stock \notin hsa
            THEN /\ f_advance
                 /\ UNCHANGED <<bought_list, orders, log>>
          ELSE IF ~HasTwoRows(rows)
            THEN \* IndexError propagates out of f and out of the loop
                 /\ pc' = "crashed"
                 /\ idx' = 0
                 /\ data' = EmptyData
           /\ index' = EmptyData
                 /\ print(<<"Traceback", "IndexError">>)
                 /\ UNCHANGED <<bought_list, orders>>
          ELSE IF ShouldBuy(stock, rows, bought_list)
            THEN /\ print(<<"now", "latest price buy", stock, ToString(order_volume)>>)
                 /\ orders' = Append(orders, order_stock_async(stock))
                 /\ bought_list' = bought_append(bought_list, stock)
                 /\ f_advance
          ELSE /\ f_advance
               /\ UNCHANGED <<bought_list, orders, log>>
    /\ UNCHANGED <<now, hsa, registered, started, connect_result,
                   subscribe_result, connected, ncallbacks, event, loop_exited,
                   entry_bought>>

\* time.sleep(3)
sleep ==
    /\ pc = "sleep"
    /\ pc' = "loop"
    /\ UNCHANGED <<idx, now, data, index, bought_list, hsa, orders, log, registered, started,
                   connect_result, subscribe_result, connected, ncallbacks, event,
                   loop_exited, entry_bought>>

----------------------------------------------------------------------------
(* Trader thread: the handlers of MyXtQuantTraderCallback *)

\* the trader thread delivers events of an established session to the
\* registered callback object, one at a time
CanDeliver ==
    /\ registered
    /\ started
    /\ connected
    /\ ncallbacks < MaxCallbacks

\* pushes about the account need the subscription
CanPush == CanDeliver /\ subscribe_result = 0

\* orders the broker received
Sent == {o \in Range(orders) : o.async_seq > 0}

Handled(kind, remark, msg) ==
    /\ ncallbacks' = ncallbacks + 1
    /\ event' = [kind |-> kind, order_remark |-> remark, error_msg |-> msg]

\* what a handler leaves alone
HandlerFrame_drops_rejected ==
    /\ bought_list' = SelectSeq(bought_list, LAMBDA s : s # event'.order_remark)
    /\ UNCHANGED <<pc, idx, now, data, index, hsa, orders, registered, started,
                   connect_result, subscribe_result, loop_exited, entry_bought>>
HandlerFrame ==
    UNCHANGED <<pc, idx, now, data, index, bought_list, hsa, orders, registered,
                started, connect_result, subscribe_result, loop_exited,
                entry_bought>>

\* on_disconnected only prints
on_disconnected_stops_run ==
    /\ CanDeliver
    /\ connected' = FALSE
    /\ print(<<"now", "disconnected callback">>)
    /\ Handled("disconnected", "", "")
    /\ pc' = "crashed"
    /\ UNCHANGED <<idx, now, data, index, bought_list, hsa, orders, registered, started,
                   connect_result, subscribe_result, loop_exited, entry_bought>>
on_disconnected ==
    /\ CanDeliver
    /\ connected' = FALSE
    /\ print(<<"now", "disconnected callback">>)
    /\ Handled("disconnected", "", "")
    /\ HandlerFrame

on_stock_order ==
    /\ CanPush
    /\ \E o \in Sent :
          /\ print(<<"now", "order callback", o.order_remark>>)
          /\ Handled("stock_order", o.order_remark, "")
    /\ HandlerFrame /\ UNCHANGED connected

on_stock_trade ==
    /\ CanPush
    /\ \E o \in Sent :
          /\ print(<<"now", "trade callback", o.order_remark>>)
          /\ Handled("stock_trade", o.order_remark, "")
    /\ HandlerFrame /\ UNCHANGED connected

\* what on_order_error prints
order_error_line(remark, msg) == <<"order error callback", remark, msg>>

on_order_error ==
    /\ CanPush
    /\ \E o \in Sent, msg \in ErrorMsgs :
          /\ print(order_error_line(o.order_remark, msg))
          /\ Handled("order_error", o.order_remark, msg)
    /\ HandlerFrame /\ UNCHANGED connected

on_cancel_error ==
    /\ CanPush
    /\ \E o \in Sent, msg \in ErrorMsgs :
          /\ print(<<"now", "on_cancel_error">>)
          /\ Handled("cancel_error", o.order_remark, msg)
    /\ HandlerFrame /\ UNCHANGED connected

on_order_stock_async_response ==
    /\ CanDeliver
    /\ \E o \in Sent :
          /\ print(<<"async order callback", o.order_remark>>)
          /\ Handled("order_stock_async_response", o.order_remark, "")
    /\ HandlerFrame /\ UNCHANGED connected

on_cancel_order_stock_async_response ==
    /\ CanDeliver
    /\ \E o \in Sent :
          /\ print(<<"now", "on_cancel_order_stock_async_response">>)
          /\ Handled("cancel_order_stock_async_response", o.order_remark, "")
    /\ HandlerFrame /\ UNCHANGED connected

on_account_status ==
    /\ CanPush
    /\ print(<<"now", "on_account_status">>)
    /\ Handled("account_status", "", "")
    /\ HandlerFrame /\ UNCHANGED connected

----------------------------------------------------------------------------
(* Specifications *)

MainStep ==
    \/ register_callback
    \/ start
    \/ connect
    \/ subscribe
    \/ subscribe_quote
    \/ loop_head
    \/ get_market_data_ex
    \/ f_stock
    \/ sleep

Callback ==
    \/ on_disconnected
    \/ on_stock_order
    \/ on_stock_trade
    \/ on_order_error
    \/ on_cancel_error
    \/ on_order_stock_async_response
    \/ on_cancel_order_stock_async_response
    \/ on_account_status

Next == MainStep \/ Callback

Spec == Init /\ [][Next]_vars

\* The interpreter keeps running the main thread while it has a statement to run.
FairSpec == Spec /\ WF_vars(MainStep)

----------------------------------------------------------------------------
(* Vocabulary of the properties *)

SecondsOfDay(t) == (t[1] * 60 + t[2]) * 60 + t[3]

\* the trading window [09:30:00, 15:00:00) as times of day
InsideTradingWindow(t) ==
    /\ (9 * 60 + 30) * 60 <= SecondsOfDay(t)
    /\ SecondsOfDay(t) < 15 * 60 * 60

\* this step is the poll at the head of the loop
Polls == pc = "loop" /\ pc' # "loop"

\* this step is f evaluating the stock code_list[idx]
Evaluates == pc = "f" /\ <<pc, idx>>' # <<pc, idx>>

\* this step is the trader thread running a handler
HandlerRuns == ncallbacks' # ncallbacks

\* the rows hold a previous/current close pair whose relative change
\* (current - previous) / previous is above 9%, in exact arithmetic
ChangeAbove9Percent(rows) ==
    /\ Len(rows) >= 2
    /\ rows[Len(rows) - 1] > 0
    /\ 100 * (rows[Len(rows)] - rows[Len(rows) - 1]) > 9 * rows[Len(rows) - 1]

\* this step appends exactly one order, a buy of stock with the lot size
SubmitsOneBuy(stock) ==
    /\ Len(orders') = Len(orders) + 1
    /\ SubSeq(orders', 1, Len(orders)) = orders
    /\ LET o == orders'[Len(orders')]
       IN /\ o.stock_code = stock
          /\ o.order_remark = stock
          /\ o.order_type = "STOCK_BUY"
          /\ o.order_volume = 100

----------------------------------------------------------------------------
(* C1 *)

\* C1: a poll whose time of day is outside [09:30:00, 15:00:00) ends the loop
\* in that iteration: the main thread goes to run_forever without fetching
\* market data, calling f or submitting an order; and once the loop has
\* exited no data is fetched, f is not called and no order is submitted.
C1_OutsideWindowEndsLoop ==
    [][ /\ (Polls /\ ~InsideTradingWindow(now')) =>
              /\ pc' = "run_forever"
              /\ loop_exited'
              /\ orders' = orders
              /\ data' = data
              /\ bought_list' = bought_list
        /\ loop_exited =>
              /\ loop_exited'
              /\ pc' \notin {"loop", "get_market_data", "f", "sleep"}
              /\ orders' = orders
              /\ data' = data ]_vars

\* the loop ran, an order was submitted, and the poll at 15:00:01 ended the loop
C1_Witness ==
    /\ loop_exited
    /\ now = <<15, 0, 1>>
    /\ orders # <<>>

----------------------------------------------------------------------------
(* C2 *)

\* C2 as stated: when f evaluates an instrument that is not in the open set
\* and whose close pair rose by more than 9%, that step submits exactly one
\* buy order of the lot size for it and appends it to the open set.
C2_AsStated ==
    [][ (/\ Evaluates
         /\ code_list[idx] \notin Range(bought_list)
         /\ ChangeAbove9Percent(data[code_list[idx]]))
        => /\ SubmitsOneBuy(code_list[idx])
           /\ bought_list' = Append(bought_list, code_list[idx]) ]_vars

\* C2 amended: the same for an instrument that is also in the universe A.hsa;
\* the order is a buy at the latest price (LATEST_PRICE, price -1) of 100
\* shares whose remark is the instrument code.
C2_BuysOnceWhenInUniverse ==
    [][ (/\ Evaluates
         /\ code_list[idx] \in hsa
         /\ code_list[idx] \notin Range(bought_list)
         /\ ChangeAbove9Percent(data[code_list[idx]]))
        => /\ SubmitsOneBuy(code_list[idx])
           /\ orders'[Len(orders')].price_type = "LATEST_PRICE"
           /\ orders'[Len(orders')].price = -1
           /\ bought_list' = Append(bought_list, code_list[idx]) ]_vars

\* f has just evaluated the first stock on 10 -> 11: it was not open at
\* entry, and now it is, with one order for it
C2_Witness ==
    /\ pc = "f"
    /\ idx = 2
    /\ data[code_list[1]] = <<10, 11>>
    /\ code_list[1] \in hsa
    /\ entry_bought = <<>>
    /\ bought_list = <<code_list[1]>>
    /\ Len(orders) = 1
    /\ orders[1].order_remark = code_list[1]

----------------------------------------------------------------------------
(* C3 *)

\* C3: when f evaluates an instrument that is already in the open set, the
\* step submits no order and leaves the open set as it is, whatever the
\* close pair is.
C3_OpenInstrumentNotBought ==
    [][ (Evaluates /\ code_list[idx] \in Range(bought_list))
        => /\ orders' = orders
           /\ bought_list' = bought_list ]_vars

\* f has just evaluated the first stock, which was open at entry, on a rise
\* above 9%: still one order, the open set as at entry
C3_Witness ==
    /\ pc = "f"
    /\ idx = 2
    /\ code_list[1] \in hsa
    /\ code_list[1] \in Range(entry_bought)
    /\ ChangeAbove9Percent(data[code_list[1]])
    /\ bought_list = entry_bought
    /\ Len(orders) = Len(bought_list)

----------------------------------------------------------------------------
(* C4 *)

\* C4: no two submitted orders are for the same instrument, and none share a
\* remark (the remark of an order is its instrument code).
C4_OneOrderPerInstrument ==
    \A i, j \in 1..Len(orders) :
        /\ orders[i].order_remark = orders[i].stock_code
        /\ i # j => /\ orders[i].stock_code # orders[j].stock_code
                    /\ orders[i].order_remark # orders[j].order_remark

\* a further poll, entered with both instruments open, has been evaluated on
\* rises above 9% for both: still two orders
C4_Witness ==
    /\ pc = "sleep"
    /\ Len(entry_bought) = Len(code_list)
    /\ Len(orders) = Len(code_list)
    /\ Stocks \subseteq hsa

----------------------------------------------------------------------------
(* C5 *)

\* C5: the open set A.bought_list holds no instrument twice.
C5_NoDuplicateOpen ==
    \A i, j \in 1..Len(bought_list) : i # j => bought_list[i] # bought_list[j]

\* both instruments are open, callbacks have run, and f is polled again
C5_Witness ==
    /\ pc = "f"
    /\ Len(entry_bought) = Len(code_list)
    /\ ncallbacks = MaxCallbacks
    /\ \A s \in Stocks : ChangeAbove9Percent(data[s])

----------------------------------------------------------------------------
(* C6 *)

\* C6: a handler of the callback object changes neither the open set nor the
\* submitted orders, and the open set changes only in a step of f.
C6_CallbacksDoNotWrite ==
    [][ /\ HandlerRuns => (bought_list' = bought_list /\ orders' = orders)
        /\ bought_list' # bought_list => (pc = "f" /\ ~HandlerRuns) ]_vars

\* on_order_error has run for an order whose instrument is still open
C6_Witness ==
    /\ event.kind = "order_error"
    /\ event.order_remark \in Range(bought_list)

----------------------------------------------------------------------------
(* C7 *)

\* C7 as stated: the line printed by the handler of an order-error event or
\* of a cancel-failure event contains the remark of the order the event is
\* about.
C7_AsStated ==
    [][ (HandlerRuns /\ event'.kind \in {"order_error", "cancel_error"})
        => /\ Len(log') = Len(log) + 1
           /\ event'.order_remark \in Range(log'[Len(log')]) ]_vars

----------------------------------------------------------------------------
(* C8 *)

\* C8 as stated: an instrument is in the open set only if the order for it
\* was confirmed: order_stock_async returned a sequence number above 0 for
\* it, and the event handled last is not the rejection of that order.
C8_AsStated ==
    \A s \in Range(bought_list) :
        /\ \E o \in Range(orders) : o.stock_code = s /\ o.async_seq > 0
        /\ ~(event.kind = "order_error" /\ event.order_remark = s)

----------------------------------------------------------------------------
(* C9 *)

\* C9 as stated: when connect() or subscribe() did not return 0, no order is
\* sent to the broker and no instrument is added to the open set.
C9_AsStated ==
    (connect_result = -1 \/ subscribe_result = -1)
        => (Sent = {} /\ bought_list = <<>>)

----------------------------------------------------------------------------
(* C10 *)

\* C10 as stated: after the loop has exited, the program eventually exits.
C10_AsStated == loop_exited ~> (pc = "exit")

\* C10 amended: after the loop has exited, the main thread is inside
\* xt_trader.run_forever() and has no further step: the program does not exit
\* by itself.
C10_BlocksInRunForever ==
    loop_exited => (pc = "run_forever" /\ ~ENABLED MainStep)

\* the loop exited at 15:00:00 and the trader thread has handled events
C10_Witness ==
    /\ pc = "run_forever"
    /\ now = <<15, 0, 0>>
    /\ ncallbacks = MaxCallbacks

----------------------------------------------------------------------------
(* C11 *)

\* C11: a disconnect is reported by on_disconnected, which prints its line and
\* leaves the main thread where it is; the session is never re-established
\* (no second connect); and with the session lost the loop goes on: a poll
\* inside the trading window still fetches data, and the loop breaks only on
\* a poll outside the window.
C11_DisconnectReportedLoopGoesOn ==
    [][ /\ (HandlerRuns /\ event'.kind = "disconnected") =>
              /\ log' = Append(log, <<"now", "disconnected callback">>)
              /\ ~connected'
              /\ pc' = pc
              /\ idx' = idx
              /\ loop_exited' = loop_exited
        /\ (~connected /\ connect_result = 0) =>
              /\ ~connected'
              /\ connect_result' = connect_result
              /\ pc' # "connect"
        /\ (Polls /\ ~connected /\ InsideTradingWindow(now')) =>
              pc' = "get_market_data"
        /\ (Polls /\ ~connected /\ pc' # "get_market_data") =>
              (~InsideTradingWindow(now') /\ pc' = "run_forever") ]_vars

\* the session was lost after a successful connect, and f has run since:
\* its order came back with -1, and the loop is at its sleep
C11_Witness ==
    /\ event.kind = "disconnected"
    /\ connect_result = 0
    /\ pc = "sleep"
    /\ \E o \in Range(orders) : o.async_seq = -1

----------------------------------------------------------------------------
(* C14 *)

\* C14: once the loop has exited it stays exited: the main thread stays in
\* run_forever, the clock is not read again (so no later time of day, inside
\* the window or not, can restart polling), no market data is fetched and f
\* is not entered.
C14_StopIsTerminal ==
    [][ loop_exited =>
           /\ loop_exited'
           /\ pc = "run_forever"
           /\ pc' = "run_forever"
           /\ now' = now
           /\ data' = data
           /\ idx' = idx
           /\ entry_bought' = entry_bought
           /\ bought_list' = bought_list ]_vars

\* the process is still alive after the exit: the trader thread has printed
\* a line after the loop printed that it exits
C14_Witness ==
    /\ loop_exited
    /\ ncallbacks > 0
    /\ log[Len(log)] # <<"now", "not trading time, loop exits">>
    /\ \E i \in 1..Len(log) : log[i] = <<"now", "not trading time, loop exits">>

----------------------------------------------------------------------------
(* C15 *)

\* C15 as stated: when f evaluates an instrument, unless it is in A.hsa, its
\* previous close is positive, its relative change is strictly above 9%
\* (exactly 9% is not enough) and it is not in the open set, the step submits
\* no order and leaves the open set as it is.
C15_AsStated ==
    [][ (/\ Evaluates
         /\ ~(/\ code_list[idx] \in hsa
              /\ ChangeAbove9Percent(data[code_list[idx]])
              /\ code_list[idx] \notin Range(bought_list)))
        => /\ orders' = orders
           /\ bought_list' = bought_list ]_vars

----------------------------------------------------------------------------
(* C16 *)

\* C16 as stated: when f evaluates an instrument whose frame holds fewer than
\* two closes, it skips that instrument only: no order, the open set as it
\* is, and f goes on to the next instrument or returns to the loop, which
\* continues with its sleep.
C16_AsStated ==
    [][ (Evaluates /\ Len(data[code_list[idx]]) < 2)
        => /\ orders' = orders
           /\ bought_list' = bought_list
           /\ IF idx < Len(code_list)
                THEN pc' = "f" /\ idx' = idx + 1
                ELSE pc' = "sleep" ]_vars

----------------------------------------------------------------------------
(* C13 *)

\* the timestamps of the frame decrease somewhere
OutOfOrder(stamps) == \E i \in 1..(Len(stamps) - 1) : stamps[i] > stamps[i + 1]

\* C13 as stated: when f evaluates an instrument of A.hsa whose frame has
\* decreasing timestamps, the step raises an error and submits no order.
C13_AsStated ==
    [][ (/\ Evaluates
         /\ code_list[idx] \in hsa
         /\ OutOfOrder(index[code_list[idx]]))
        => /\ pc' = "crashed"
           /\ orders' = orders
           /\ bought_list' = bought_list ]_vars

----------------------------------------------------------------------------
(* C17 *)

\* C17: when f evaluates an instrument of A.hsa whose previous close is zero
\* or negative, the step submits no order, leaves the open set as it is,
\* raises nothing, and f goes on to the next instrument (or returns after
\* the last one).
C17_NonPositivePreviousClose ==
    [][ (/\ Evaluates
         /\ code_list[idx] \in hsa
         /\ Len(data[code_list[idx]]) >= 2
         /\ data[code_list[idx]][Len(data[code_list[idx]]) - 1] <= 0)
        => /\ orders' = orders
           /\ bought_list' = bought_list
           /\ log' = log
           /\ IF idx < Len(code_list)
                THEN pc' = "f" /\ idx' = idx + 1 /\ data' = data
                ELSE pc' = "sleep" ]_vars

\* f has evaluated the first stock on a negative previous close and a
\* positive current close, and is at the second stock with nothing bought
C17_Witness ==
    /\ pc = "f"
    /\ idx = 2
    /\ code_list[1] \in hsa
    /\ data[code_list[1]] = <<-10, 11>>
    /\ bought_list = <<>>
    /\ orders = <<>>

----------------------------------------------------------------------------
(* C18 *)

\* the main thread is in the polling loop or past it
PastSetUp == pc \in {"loop", "get_market_data", "f", "sleep", "run_forever", "crashed"}

\* C18: the callback object is registered before the trader thread is
\* started, the thread is started before connect returns, connect returns
\* before subscribe does, and all four are done before the first poll; so
\* every order is submitted, and every broker event is handled or can be
\* delivered, only with a callback object registered.
C18_LifecycleOrder ==
    /\ started => registered
    /\ connect_result # Unassigned => started
    /\ subscribe_result # Unassigned => connect_result # Unassigned
    /\ (PastSetUp \/ now # NotRead) => subscribe_result # Unassigned
    /\ orders # <<>> => (registered /\ PastSetUp)
    /\ (ncallbacks > 0 \/ (started /\ connected)) => registered

\* an order was submitted and a broker event about it was handled
C18_Witness ==
    /\ registered
    /\ orders # <<>>
    /\ event.kind = "order_stock_async_response"
    /\ subscribe_result = -1

====
